---- MODULE Spec2Model ----
(***************************************************************************)
(* A model of pyasrank's AsRank session (src/asrank/asrank.py): the        *)
(* dataset resolver init_cache, the batch query engine                     *)
(* _query_asrank_for_asns and the operations built on its caches.          *)
(*                                                                         *)
(* Every public method is one action that models the whole call.  What the *)
(* remote endpoint answers is an input of the action: each specification   *)
(* draws it from the sets its Next names.  Variables that the program does *)
(* not have (last, rel_log, cone_asked, pinned_at) record what a call did, *)
(* so that properties of calls can be stated over states.  Between two     *)
(* calls the caller takes the result (Resume): the record of the call is   *)
(* cleared and the next call starts from the session's own state.          *)
(***************************************************************************)
EXTENDS Integers, Sequences, FiniteSets, TLC

VARIABLES
    data_ts,             \* self.data_ts: the pinned dataset date
    cache,               \* self.cache: AS identifier -> descriptor or None
    cone_cache,          \* self.cone_cache: cone root -> set of members
    neighbors_cache,     \* self.neighbors_cache
    siblings_cache,      \* self.siblings_cache
    organization_cache,  \* self.organization_cache: orgId -> organization
    queries_sent,        \* self.queries_sent
    last,                \* the last call: operation, arguments, result, requests posted
    rel_log,             \* the last get_relationship call the caller took the result of
    cone_asked,          \* cone roots for which in_customer_cone has returned in this session
    ensured,             \* identifiers of the lists _query_asrank_for_asns returned normally for
    neighbors_log,       \* asn -> what the first get_neighbor_ases(asn) of the session returned
    pinned_at            \* per cache: the data_ts values under which its entries were fetched

vars == <<data_ts, cache, cone_cache, neighbors_cache, siblings_cache,
          organization_cache, queries_sent, last, rel_log, cone_asked, ensured,
          neighbors_log, pinned_at>>

caches == <<cache, cone_cache, neighbors_cache, siblings_cache, organization_cache>>

----------------------------------------------------------------------------
(* Bounds of the model *)

MaxLen == 2        \* longest list of identifiers passed to a call
MaxChunk == 2      \* largest chunk_size passed to a call
MaxDay == 1        \* dataset dates range up to DateStart + MaxDay
MaxDegree == 1     \* largest degree count the remote reports
MaxQueries == 3    \* calls stop posting requests once queries_sent reaches this

(* Program constants *)

DateStart == 10957       \* "2000-01-01" as a day number since 1970-01-01
DefaultChunkSize == 100  \* chunk_size=100
SecondsPerDay == 86400   \* utcfromtimestamp(ts).strftime("%Y-%m-%d") drops the time of day

----------------------------------------------------------------------------
(* Values *)

ASNS == {"701", "702"}          \* AS identifiers, in their string form
OrgIds == {"orgA", "orgB"}      \* organization identifiers

NULL == "null"                  \* JSON null / Python None inside a descriptor
NullInt == 0 - 1                \* JSON null where a number is expected

Absent == [kind |-> "absent"]   \* the key is not in the dict
None == [kind |-> "none"]       \* the key maps to None

Dates == (DateStart - 1) .. (DateStart + MaxDay)

DegreeFields == {"provider", "peer", "customer", "total", "transit", "sibling"}
DegVal == {NullInt} \cup (0 .. MaxDegree)

Degree(p, e, c, t, tr, s) ==
    [provider |-> p, peer |-> e, customer |-> c, total |-> t, transit |-> tr, sibling |-> s]

\* The asnDegree records the remote can report: provider and peer vary freely, the other
\* four sub-fields share one value.
RawDegrees == {Degree(p, e, o, o, o, o) : p \in DegVal, e \in DegVal, o \in DegVal}
PlainDegrees == {Degree(0, 0, 0, 0, 0, 0)}

Node(a, org, deg) == [kind |-> "node", asn |-> a, organization |-> org, asnDegree |-> deg]

Elems(s) == {s[i] : i \in 1 .. Len(s)}
Keys(c) == {a \in DOMAIN c : c[a] # Absent}
EmptyDict(K) == [k \in K |-> Absent]

Max(S) == CHOOSE x \in S : \A y \in S : y <= x
Min(S) == CHOOSE x \in S : \A y \in S : x <= y

AsnLists == UNION {[1 .. n -> ASNS] : n \in 0 .. MaxLen}
ChunkSizes == 1 .. MaxChunk

\* What the remote holds for each identifier during one call: a node or nothing.
DBs(degs, orgs) ==
    {db \in [ASNS -> {Absent} \cup {Node(a, o, d) : a \in ASNS, o \in orgs, d \in degs}] :
        \A a \in ASNS : db[a] # Absent => db[a].asn = a}

\* How a call's requests can fail: request number `at` (0: none) either is refused by the
\* transport ("http": raise_for_status raises) or carries a response the code cannot walk
\* ("keyerror"), after the nodes of `done` were read.
NoFail == [at |-> 0, kind |-> "none", done |-> {}]
HttpFail(i) == [at |-> i, kind |-> "http", done |-> {}]
KeyFail(i, D) == [at |-> i, kind |-> "keyerror", done |-> D]
Fails(n) == {NoFail} \cup {HttpFail(i) : i \in 1 .. n} \cup {KeyFail(i, {}) : i \in 1 .. n}

\* One completed call: the operation, what it raised (NULL: it returned), its arguments,
\* what it returned, the requests it posted, how many of them queries_sent counted, and
\* what the remote answered.
Call(op, raised, args, ret, sent, counted, remote) ==
    [op |-> op, raised |-> raised, args |-> args, ret |-> ret, sent |-> sent,
     counted |-> counted, remote |-> remote]

CacheNames == {"cache", "cone_cache", "neighbors_cache", "siblings_cache", "organization_cache"}

\* The session's caches at the start of a call, with what the call has posted so far.
Start ==
    [cache |-> cache, cone_cache |-> cone_cache, neighbors_cache |-> neighbors_cache,
     siblings_cache |-> siblings_cache, organization_cache |-> organization_cache,
     sent |-> <<>>, counted |-> 0, raised |-> NULL, returned |-> {}]

\* _send_request(query): the request is posted; raise_for_status raises before
\* queries_sent is incremented.
Failing(st, fail) == fail.at = Len(st.sent) + 1
SendRequest(st, q, fail) ==
    IF Failing(st, fail) /\ fail.kind = "http"
    THEN [st EXCEPT !.sent = Append(@, q), !.raised = "http"]
    ELSE [st EXCEPT !.sent = Append(@, q), !.counted = @ + 1]

\* The dataset dates under which the entries of each cache were fetched, after a call
\* that left the caches as in `st` with `ts` pinned.
Pinned(st, ts) ==
    [n \in CacheNames |->
        IF Keys(st[n]) = {} THEN {}
        ELSE IF st[n] # Start[n] THEN pinned_at[n] \cup {ts}
        ELSE pinned_at[n]]

\* No call on record: the caller has taken the result of the last call.
Idle == Call("idle", NULL, <<>>, NULL, <<>>, 0, NULL)

\* The last completed get_relationship call of the session, as the next state keeps it.
NoRel == [args |-> <<>>, link |-> NULL, ret |-> NULL]
RelLog ==
    IF last.op = "get_relationship" /\ last.raised = NULL
    THEN [args |-> last.args, link |-> last.remote, ret |-> last.ret]
    ELSE rel_log

\* The identifiers of the lists for which a cache_asrank_chunk / get_asrank_for_asns call
\* has returned normally since init_cache, as the next state keeps them.
Ensured ==
    IF last.op \in {"cache_asrank_chunk", "get_asrank_for_asns"} /\ last.raised = NULL
    THEN ensured \cup Elems(last.args.asns)
    ELSE ensured

\* What the first get_neighbor_ases call that returned since init_cache returned, for
\* each asn, as the next state keeps it.
NeighborsLog ==
    IF last.op = "get_neighbor_ases" /\ last.raised = NULL
          /\ neighbors_log[last.args[1]] = Absent
    THEN [neighbors_log EXCEPT ![last.args[1]] = last.ret]
    ELSE neighbors_log

\* The caller is ready for its next call.
Ready == last.op = "idle"

\* Between two calls: the caller takes the result, and the session is as the call left it.
Resume ==
    /\ ~Ready
    /\ last' = Idle
    /\ rel_log' = RelLog
    /\ ensured' = Ensured
    /\ neighbors_log' = NeighborsLog
    /\ UNCHANGED <<data_ts, caches, queries_sent, cone_asked, pinned_at>>

\* The end of every call but init_cache.
Commit(st, op, args, ret, remote) ==
    /\ queries_sent + st.counted <= MaxQueries
    /\ cache' = st.cache
    /\ cone_cache' = st.cone_cache
    /\ neighbors_cache' = st.neighbors_cache
    /\ siblings_cache' = st.siblings_cache
    /\ organization_cache' = st.organization_cache
    /\ queries_sent' = queries_sent + st.counted
    /\ last' = Call(op, st.raised, args, IF st.raised = NULL THEN ret ELSE NULL,
                    st.sent, st.counted, remote)
    /\ pinned_at' = Pinned(st, data_ts)
    /\ UNCHANGED rel_log
    /\ UNCHANGED ensured
    /\ UNCHANGED neighbors_log
    /\ UNCHANGED data_ts

----------------------------------------------------------------------------
(* ts_to_date_str and init_cache *)

ts_to_date_str(ts) == ts \div SecondsPerDay

\* A target is a date string or an integer timestamp.
Targets ==
    {[isint |-> FALSE, v |-> d] : d \in Dates}
    \cup {[isint |-> TRUE, v |-> d * SecondsPerDay + s] : d \in Dates, s \in {0, SecondsPerDay - 1}}

TargetDate(ts) == IF ts.isint THEN ts_to_date_str(ts.v) ELSE ts.v

\* datasets(dateStart:"2000-01-01", dateEnd:ts, sort:"-date", first:1)
DatasetsBefore(datasets, date) ==
    LET hits == {d \in datasets : DateStart <= d /\ d <= date}
    IN  IF hits = {} THEN <<>> ELSE <<Max(hits)>>

\* datasets(dateStart:ts, sort:"date", first:1)
DatasetsAfter(datasets, date) ==
    LET hits == {d \in datasets : date <= d}
    IN  IF hits = {} THEN <<>> ELSE <<Min(hits)>>

DatasetQuery(from, to, sort) == [kind |-> "datasets", from |-> from, to |-> to, sort |-> sort]

\* The outcome of init_cache(ts) against a remote holding `datasets`.
ResolveDataset(old_ts, ts, datasets, fail) ==
    LET date == TargetDate(ts)
        q1 == DatasetQuery(DateStart, date, "-date")
        q2 == DatasetQuery(date, NullInt, "date")
        e1 == DatasetsBefore(datasets, date)
        e2 == DatasetsAfter(datasets, date)
    IN  IF fail.at = 1
        THEN [data_ts |-> old_ts, raised |-> fail.kind, sent |-> <<q1>>,
              counted |-> IF fail.kind = "http" THEN 0 ELSE 1]
        ELSE IF e1 # <<>>
        THEN [data_ts |-> e1[1], raised |-> NULL, sent |-> <<q1>>, counted |-> 1]
        ELSE IF fail.at = 2
        THEN [data_ts |-> old_ts, raised |-> fail.kind, sent |-> <<q1, q2>>,
              counted |-> IF fail.kind = "http" THEN 1 ELSE 2]
        ELSE IF e2 # <<>>
        THEN [data_ts |-> e2[1], raised |-> NULL, sent |-> <<q1, q2>>, counted |-> 2]
        ELSE [data_ts |-> old_ts, raised |-> "ValueError", sent |-> <<q1, q2>>, counted |-> 2]

\* init_cache without `self.cache = {}`.
StaleCache == cache

FreshCache == EmptyDict(ASNS)
\* init_cache without `self.cone_cache = {}`.
StaleConeCache == cone_cache

FreshConeCache == EmptyDict(ASNS)
FreshNeighborsCache == EmptyDict(ASNS)
FreshSiblingsCache == EmptyDict(ASNS)
FreshOrganizationCache == EmptyDict(OrgIds)

InitCache(ts, datasets, fail) ==
    \E r \in {ResolveDataset(data_ts, ts, datasets, fail)} :
        \E st \in {[Start EXCEPT !.cache = FreshCache,
                                  !.cone_cache = FreshConeCache,
                                  !.neighbors_cache = FreshNeighborsCache,
                                  !.siblings_cache = FreshSiblingsCache,
                                  !.organization_cache = FreshOrganizationCache]} :
            /\ fail.at <= Len(r.sent)
            /\ cache' = st.cache
            /\ cone_cache' = st.cone_cache
            /\ neighbors_cache' = st.neighbors_cache
            /\ siblings_cache' = st.siblings_cache
            /\ organization_cache' = st.organization_cache
            /\ queries_sent' = r.counted
            /\ data_ts' = r.data_ts
            /\ last' = Call("init_cache", r.raised,
                            [date |-> TargetDate(ts), datasets |-> datasets],
                            NULL, r.sent, r.counted,
                            [old_ts |-> data_ts,
                             dropped |-> {n \in CacheNames : Keys(Start[n]) # {}}])
            /\ rel_log' = NoRel
            /\ cone_asked' = {}
            /\ ensured' = {}
            /\ neighbors_log' = EmptyDict(ASNS)
            /\ pinned_at' = Pinned(st, r.data_ts)

\* The state after AsRank(max_ts) has returned: init_cache resolved a dataset.
Init ==
    \E ts \in Targets, datasets \in SUBSET Dates :
        LET r == ResolveDataset(NULL, ts, datasets, NoFail)
        IN  /\ r.raised = NULL
            /\ data_ts = r.data_ts
            /\ cache = EmptyDict(ASNS)
            /\ cone_cache = EmptyDict(ASNS)
            /\ neighbors_cache = EmptyDict(ASNS)
            /\ siblings_cache = EmptyDict(ASNS)
            /\ organization_cache = EmptyDict(OrgIds)
            /\ queries_sent = r.counted
            /\ last = Call("init_cache", NULL,
                           [date |-> TargetDate(ts), datasets |-> datasets],
                           NULL, r.sent, r.counted,
                           [old_ts |-> NULL, dropped |-> {}])
            /\ rel_log = NoRel
            /\ cone_asked = {}
            /\ ensured = {}
            /\ neighbors_log = EmptyDict(ASNS)
            /\ pinned_at = [n \in CacheNames |-> {}]

----------------------------------------------------------------------------
(* _query_asrank_for_asns *)

\* chunks that does not cut: the whole list is one chunk.
OneChunk(lst, n) == IF Len(lst) = 0 THEN <<>> ELSE <<lst>>

\* chunks(lst, n): successive n-sized chunks of lst
RECURSIVE chunks(_, _)
chunks(lst, n) ==
    IF Len(lst) = 0 THEN <<>>
    ELSE IF Len(lst) <= n THEN <<lst>>
    ELSE <<SubSeq(lst, 1, n)>> \o chunks(SubSeq(lst, n + 1, Len(lst)), n)

OrZero(x) == IF x = NullInt \/ x = 0 THEN 0 ELSE x

\* lines 173-179: provider, customer, peer and sibling are replaced by `x or 0`
NormalizeDegree(d) ==
    [d EXCEPT !.provider = OrZero(d.provider), !.customer = OrZero(d.customer),
              !.peer = OrZero(d.peer), !.sibling = OrZero(d.sibling)]

\* StoreNodes without `if data['asn'] not in self.cache`: every node is stored.
StoreNodesOver(c, nodes) ==
    [a \in ASNS |->
        IF \E n \in nodes : n.asn = a
        THEN LET n == CHOOSE n \in nodes : n.asn = a
             IN  [n EXCEPT !.asnDegree = NormalizeDegree(n.asnDegree)]
        ELSE c[a]]

\* lines 170-180: each node of the response is stored unless its asn is already a key
StoreNodes(c, nodes) ==
    [a \in ASNS |->
        IF c[a] = Absent /\ \E n \in nodes : n.asn = a
        THEN LET n == CHOOSE n \in nodes : n.asn = a
             IN  [n EXCEPT !.asnDegree = NormalizeDegree(n.asnDegree)]
        ELSE c[a]]

\* FillNone without its write: identifiers absent from the response are left out.
FillNoneSkipped(c, chunk) == c

\* lines 181-183: each identifier of the chunk that is still no key is stored as None
FillNone(c, chunk) ==
    [a \in ASNS |-> IF c[a] = Absent /\ a \in Elems(chunk) THEN None ELSE c[a]]

\* The nodes the remote answers to a request for `chunk`: what it holds for the
\* identifiers asked for, and for those of `extra`.
Response(db, chunk, extra) ==
    {db[a] : a \in {x \in Elems(chunk) \cup extra : db[x] # Absent}}

AsnsQuery(chunk, date, c) ==
    [kind |-> "asns", asns |-> chunk, date |-> date, first |-> Len(chunk),
     cached |-> Elems(chunk) \cap Keys(c)]

\* RaisedKeyError as if the fill loop ran before the exception left the method.
RaisedAfterFill(posted, stored, read, chunk) ==
    [posted EXCEPT !.cache = FillNone(stored, chunk), !.returned = @ \cup read,
                   !.raised = "keyerror"]

\* lines 169-187: the KeyError leaves the try block after the nodes read so far were
\* stored and before the fill loop; it is logged and raised again
RaisedKeyError(posted, stored, read, chunk) ==
    [posted EXCEPT !.cache = stored, !.returned = @ \cup read, !.raised = "keyerror"]

\* lines 137-187: one request per chunk; a chunk whose response cannot be walked raises
\* after the nodes read so far were stored.
RECURSIVE QueryChunks(_, _, _, _, _, _, _)
QueryChunks(chs, i, st, date, db, extra, fail) ==
    IF i > Len(chs) \/ st.raised # NULL THEN st
    ELSE
        LET chunk == chs[i]
            nodes == Response(db, chunk, extra)
            read == IF Failing(st, fail) THEN {n \in nodes : n.asn \in fail.done} ELSE nodes
            posted == SendRequest(st, AsnsQuery(chunk, date, st.cache), fail)
            stored == StoreNodes(st.cache, read)
            next ==
                IF posted.raised # NULL THEN posted
                ELSE IF Failing(st, fail)
                THEN RaisedKeyError(posted, stored, read, chunk)
                ELSE [posted EXCEPT !.cache = FillNone(stored, chunk),
                                    !.returned = @ \cup read]
        IN  QueryChunks(chs, i + 1, next, date, db, extra, fail)

\* AsnsNeeded without the test for cached identifiers.
AsnsNeededAll(c, asns) == asns

\* lines 126-129: the identifiers that are no key of the cache, in order, repeats kept
AsnsNeeded(c, asns) == SelectSeq(asns, LAMBDA a : c[a] = Absent)

\* _query_asrank_for_asns(asns, chunk_size)
QueryAsrankForAsns(st, asns, chunk_size, date, db, extra, fail) ==
    QueryChunks(chunks(AsnsNeeded(st.cache, asns), chunk_size), 1, st, date, db, extra, fail)

\* cache_asrank_chunk(asns, chunk_size)
CacheAsrankChunk(asns, chunk_size, db, extra, fail) ==
    \E st \in {QueryAsrankForAsns(Start, asns, chunk_size, data_ts, db, extra, fail)} :
        /\ fail.at <= Len(st.sent)
        /\ Commit(st, "cache_asrank_chunk", [asns |-> asns, chunk_size |-> chunk_size],
                  NULL, st.returned)
        /\ UNCHANGED cone_asked

\* get_asrank_for_asns(asn_lst)
GetAsrankForAsns(asns, db, extra, fail) ==
    \E st \in {QueryAsrankForAsns(Start, asns, DefaultChunkSize, data_ts, db, extra, fail)} :
        /\ fail.at <= Len(st.sent)
        /\ Commit(st, "get_asrank_for_asns", [asns |-> asns, chunk_size |-> DefaultChunkSize],
                  [a \in Elems(asns) |-> IF st.cache[a] = Absent THEN None ELSE st.cache[a]],
                  st.returned)
        /\ UNCHANGED cone_asked

----------------------------------------------------------------------------
(* get_degree, get_relationship, is_sole_provider *)

\* lines 262-266: the cached descriptor's asnDegree, or None
Degree_of(st, asn) == IF st.cache[asn] = None THEN None ELSE st.cache[asn].asnDegree

\* get_degree(asn)
GetDegree(asn, db, extra, fail) ==
    \E st \in {QueryAsrankForAsns(Start, <<asn>>, DefaultChunkSize, data_ts, db, extra, fail)} :
        /\ fail.at <= Len(st.sent)
        /\ Commit(st, "get_degree", <<asn>>, Degree_of(st, asn), st.returned)
        /\ UNCHANGED cone_asked

\* SameOrg without the TypeError branch: two descriptors without organization compare equal.
SameOrgOrNone(o1, o2) == o1 = o2

\* lines 203-207: the two orgIds are equal; a descriptor whose organization is null
\* raises TypeError, which answers False
SameOrg(o1, o2) == o1 # NULL /\ o2 # NULL /\ o1 = o2

\* are_siblings(asn1, asn2) from call state st: [st, ret]
Siblings(st, asn1, asn2, date, db, extra, fail) ==
    LET st1 == QueryAsrankForAsns(st, <<asn1, asn2>>, DefaultChunkSize, date, db, extra, fail)
    IN  IF st1.raised # NULL THEN [st |-> st1, ret |-> NULL]
        ELSE IF st1.cache[asn1] = None \/ st1.cache[asn2] = None
        THEN [st |-> st1, ret |-> FALSE]
        ELSE [st |-> st1,
              ret |-> SameOrg(st1.cache[asn1].organization, st1.cache[asn2].organization)]

AreSiblings(asn1, asn2, db, extra, fail) ==
    \E r \in {Siblings(Start, asn1, asn2, data_ts, db, extra, fail)} :
        /\ fail.at <= Len(r.st.sent)
        /\ Commit(r.st, "are_siblings", <<asn1, asn2>>, r.ret, r.st.returned)
        /\ UNCHANGED cone_asked

\* What asnLink answers: null, or a record whose relationship is one of these labels
\* ("" stands for a record without the key).
LinkLabels == {"provider", "customer", "peer", "sibling", ""}
Links == {NULL} \cup LinkLabels

\* RelOf read from asn1's side: provider and customer exchanged.
RelOfSwapped(link) ==
    IF link = NULL THEN NULL
    ELSE IF link = "provider" THEN "p-c"
    ELSE IF link = "customer" THEN "c-p"
    ELSE IF link = "peer" THEN "p-p"
    ELSE NULL

\* RelOf with the customer branch returning the provider branch's value.
RelOfOneWay(link) ==
    IF link = NULL THEN NULL
    ELSE IF link = "provider" THEN "c-p"
    ELSE IF link = "customer" THEN "c-p"
    ELSE IF link = "peer" THEN "p-p"
    ELSE NULL

\* lines 313-329: the remote's label for asn1, seen from asn0, as a relationship
RelOf(link) ==
    IF link = NULL THEN NULL
    ELSE IF link = "provider" THEN "c-p"
    ELSE IF link = "customer" THEN "p-c"
    ELSE IF link = "peer" THEN "p-p"
    ELSE NULL

LinkQuery(asn0, asn1, date) == [kind |-> "asnLink", asn0 |-> asn0, asn1 |-> asn1, date |-> date]

\* get_relationship(asn0, asn1) from call state st: [st, ret]
Relationship(st, asn0, asn1, date, link, fail) ==
    LET posted == SendRequest(st, LinkQuery(asn0, asn1, date), fail)
    IN  IF posted.raised # NULL THEN [st |-> posted, ret |-> NULL]
        ELSE IF Failing(st, fail) THEN [st |-> [posted EXCEPT !.raised = "keyerror"], ret |-> NULL]
        ELSE [st |-> posted, ret |-> RelOf(link)]

GetRelationship(asn0, asn1, link, fail) ==
    \E r \in {Relationship(Start, asn0, asn1, data_ts, link, fail)} :
        /\ Commit(r.st, "get_relationship", <<asn0, asn1>>, r.ret, link)
        /\ UNCHANGED cone_asked

\* UpstreamIsSingle without the peer test.
UpstreamIgnoringPeers(degree) == degree.provider = 1

\* lines 285: asn_cust has one provider and no peer
UpstreamIsSingle(degree) == degree.provider = 1 /\ degree.peer = 0

\* is_sole_provider(asn_pro, asn_cust) from call state st: [st, ret, asked, rel]
SoleProvider(st, asn_pro, asn_cust, date, db, extra, link, fail) ==
    LET st1 == QueryAsrankForAsns(st, <<asn_cust>>, DefaultChunkSize, date, db, extra, fail)
        degree == Degree_of(st1, asn_cust)
        r == Relationship(st1, asn_pro, asn_cust, date, link, fail)
        unasked == [st |-> st1, ret |-> FALSE, asked |-> FALSE, rel |-> NULL]
    IN  IF st1.raised # NULL THEN [unasked EXCEPT !.ret = NULL]
        ELSE IF degree = None THEN unasked
        ELSE IF UpstreamIsSingle(degree)
        THEN [st |-> r.st, ret |-> r.ret = "p-c", asked |-> TRUE, rel |-> r.ret]
        ELSE unasked

IsSoleProvider(asn_pro, asn_cust, db, extra, link, fail) ==
    \E r \in {SoleProvider(Start, asn_pro, asn_cust, data_ts, db, extra, link, fail)} :
        /\ fail.at <= Len(r.st.sent)
        /\ Commit(r.st, "is_sole_provider", <<asn_pro, asn_cust>>, r.ret,
                  [asked |-> r.asked, rel |-> r.rel])
        /\ UNCHANGED cone_asked

----------------------------------------------------------------------------
(* in_customer_cone *)

\* What asnCone answers: null, or the members of the cone.
Cone(S) == [kind |-> "cone", asns |-> S]
Cones == {None} \cup {Cone(S) : S \in SUBSET ASNS}

ConeQuery(asn, date) == [kind |-> "asnCone", asn |-> asn, date |-> date]

\* in_customer_cone(asn0, asn1) from call state st: [st, ret]
CustomerCone(st, asn0, asn1, date, cone, fail) ==
    LET posted == SendRequest(st, ConeQuery(asn1, date), fail)
    IN  IF st.cone_cache[asn1] # Absent
        THEN [st |-> st, ret |-> asn0 \in st.cone_cache[asn1].asns]
        ELSE IF posted.raised # NULL THEN [st |-> posted, ret |-> NULL]
        ELSE IF Failing(st, fail) THEN [st |-> [posted EXCEPT !.raised = "keyerror"], ret |-> NULL]
        ELSE IF cone = None THEN [st |-> posted, ret |-> FALSE]
        ELSE [st |-> [posted EXCEPT !.cone_cache[asn1] = cone], ret |-> asn0 \in cone.asns]

InCustomerCone(asn0, asn1, cone, fail) ==
    \E r \in {CustomerCone(Start, asn0, asn1, data_ts, cone, fail)} :
        /\ fail.at <= Len(r.st.sent)
        /\ Commit(r.st, "in_customer_cone", <<asn0, asn1>>, r.ret,
                  [cone |-> cone, asked_before |-> asn1 \in cone_asked])
        /\ cone_asked' = IF r.st.raised = NULL THEN cone_asked \cup {asn1} ELSE cone_asked

----------------------------------------------------------------------------
(* get_all_siblings, get_all_siblings_list, get_neighbor_ases *)

\* What organization(orgId) answers: null, or the members with their total count.
Organization(total, members) == [kind |-> "org", totalCount |-> total, asns |-> members]
Organizations ==
    {None} \cup {Organization(t, S) : t \in 0 .. Cardinality(ASNS) + 1, S \in SUBSET ASNS}

\* The Python values the two methods return and store.
SiblingsTuple(total, siblings) == [kind |-> "tuple", total |-> total, siblings |-> siblings]
NeighborsDict(p, c, e) == [kind |-> "dict", providers |-> p, customers |-> c, peers |-> e]

OrgQuery(org_id) == [kind |-> "organization", orgId |-> org_id]

\* lines 424-430: the members but asn, and the count less one when asn is a member
SiblingsOf(asn, data) ==
    IF asn \in data.asns
    THEN SiblingsTuple(data.totalCount - 1, data.asns \ {asn})
    ELSE SiblingsTuple(data.totalCount, data.asns)

\* get_all_siblings(asn, skip_asrank_call) from call state st: [st, ret]
AllSiblings(st, asn, skip, date, db, extra, orgdb, fail) ==
    LET st1 == IF skip THEN st
               ELSE QueryAsrankForAsns(st, <<asn>>, DefaultChunkSize, date, db, extra, fail)
        org_id == st1.cache[asn].organization
        posted == SendRequest(st1, OrgQuery(org_id), fail)
        data == IF st1.organization_cache[org_id] # Absent
                THEN st1.organization_cache[org_id] ELSE orgdb[org_id]
        st2 == IF st1.organization_cache[org_id] # Absent THEN st1
               ELSE [posted EXCEPT !.organization_cache[org_id] = data]
    IN  IF st.siblings_cache[asn] # Absent THEN [st |-> st, ret |-> st.siblings_cache[asn]]
        ELSE IF st1.raised # NULL THEN [st |-> st1, ret |-> NULL]
        ELSE IF st1.cache[asn] = Absent \/ st1.cache[asn] = None
        THEN [st |-> st1, ret |-> SiblingsTuple(0, {})]
        ELSE IF org_id = NULL THEN [st |-> st1, ret |-> SiblingsTuple(0, {})]
        ELSE IF st1.organization_cache[org_id] = Absent /\ posted.raised # NULL
        THEN [st |-> posted, ret |-> NULL]
        ELSE IF st1.organization_cache[org_id] = Absent /\ Failing(st1, fail)
        THEN [st |-> [posted EXCEPT !.raised = "keyerror"], ret |-> NULL]
        ELSE IF data = None THEN [st |-> st2, ret |-> SiblingsTuple(0, {})]
        ELSE [st |-> [st2 EXCEPT !.neighbors_cache[asn] = SiblingsOf(asn, data)],
              ret |-> SiblingsOf(asn, data)]

GetAllSiblings(asn, skip, db, extra, orgdb, fail) ==
    \E r \in {AllSiblings(Start, asn, skip, data_ts, db, extra, orgdb, fail)} :
        /\ fail.at <= Len(r.st.sent)
        /\ Commit(r.st, "get_all_siblings", <<asn, skip>>, r.ret, orgdb)
        /\ UNCHANGED cone_asked

\* lines 374-377: get_all_siblings for each identifier in turn.  acc = [st, res]
RECURSIVE SiblingsLoop(_, _, _, _, _, _, _, _)
SiblingsLoop(asns, i, acc, date, db, extra, orgdb, fail) ==
    IF i > Len(asns) \/ acc.st.raised # NULL THEN acc
    ELSE LET r == AllSiblings(acc.st, asns[i], FALSE, date, db, extra, orgdb, fail)
         IN  SiblingsLoop(asns, i + 1,
                          [st |-> r.st, res |-> (asns[i] :> r.ret) @@ acc.res],
                          date, db, extra, orgdb, fail)

\* get_all_siblings_list(asns, chunk_size) from call state st: [st, res]
AllSiblingsList(st, asns, chunk_size, date, db, extra, orgdb, fail) ==
    SiblingsLoop(asns, 1,
                 [st |-> QueryAsrankForAsns(st, asns, chunk_size, date, db, extra, fail),
                  res |-> <<>>],
                 date, db, extra, orgdb, fail)

GetAllSiblingsList(asns, chunk_size, db, extra, orgdb, fail) ==
    \E r \in {AllSiblingsList(Start, asns, chunk_size, data_ts, db, extra, orgdb, fail)} :
        /\ fail.at <= Len(r.st.sent)
        /\ Commit(r.st, "get_all_siblings_list", [asns |-> asns, chunk_size |-> chunk_size],
                  r.res, [db |-> db, orgdb |-> orgdb])
        /\ UNCHANGED cone_asked

\* What asn(asn) answers: null, or the list asnLinks.edges of links [neighbor, relationship].
NeighborLink(n, rel) == [asn |-> n, relationship |-> rel]
AsnLinks(edges) == [kind |-> "asnLinks", edges |-> edges]

NeighborsQuery(asn) == [kind |-> "asn", asn |-> asn]

\* lines 466-469: each link's neighbor is appended to the list its relationship names
RECURSIVE Bucket(_, _, _)
Bucket(edges, i, res) ==
    IF i > Len(edges) THEN res
    ELSE LET e == edges[i]
         IN  Bucket(edges, i + 1,
                    IF e.relationship = "provider"
                    THEN [res EXCEPT !.providers = Append(@, e.asn)]
                    ELSE IF e.relationship = "customer"
                    THEN [res EXCEPT !.customers = Append(@, e.asn)]
                    ELSE [res EXCEPT !.peers = Append(@, e.asn)])

\* res["{}s".format(neighbor_rel)] raises KeyError for any other relationship
Bucketable(edges) ==
    \A i \in 1 .. Len(edges) : edges[i].relationship \in {"provider", "customer", "peer"}

\* get_neighbor_ases(asn) from call state st: [st, ret]
NeighborAses(st, asn, data, fail) ==
    LET posted == SendRequest(st, NeighborsQuery(asn), fail)
        res == NeighborsDict(<<>>, <<>>, <<>>)
    IN  IF st.neighbors_cache[asn] # Absent THEN [st |-> st, ret |-> st.neighbors_cache[asn]]
        ELSE IF posted.raised # NULL THEN [st |-> posted, ret |-> NULL]
        ELSE IF Failing(st, fail) THEN [st |-> [posted EXCEPT !.raised = "keyerror"], ret |-> NULL]
        ELSE IF data = None THEN [st |-> posted, ret |-> res]
        ELSE IF ~Bucketable(data.edges)
        THEN [st |-> [posted EXCEPT !.raised = "keyerror"], ret |-> NULL]
        ELSE [st |-> [posted EXCEPT !.neighbors_cache[asn] = Bucket(data.edges, 1, res)],
              ret |-> Bucket(data.edges, 1, res)]

GetNeighborAses(asn, data, fail) ==
    \E r \in {NeighborAses(Start, asn, data, fail)} :
        /\ fail.at <= Len(r.st.sent)
        /\ Commit(r.st, "get_neighbor_ases", <<asn>>, r.ret, data)
        /\ UNCHANGED cone_asked

----------------------------------------------------------------------------
(* Specifications *)

NoDB == [a \in ASNS |-> Absent]
Orgs == {NULL} \cup OrgIds
Present(db) == {a \in ASNS : db[a] # Absent}
PlainDBs == DBs(PlainDegrees, {"orgA"})
DatasetSets == SUBSET Dates

\* The remote's side of _query_asrank_for_asns(asns, n): it adds the nodes of `extra` to
\* every response and holds nothing for an identifier that is neither asked for nor added;
\* nothing is asked when every identifier is cached.
Asked(asns) == Elems(AsnsNeeded(cache, asns))
ExtrasFor(asns, extras) == IF Asked(asns) = {} THEN {{}} ELSE extras
DBsFor(asns, extra, dbs) ==
    IF Asked(asns) = {} THEN {NoDB}
    ELSE {db \in dbs : extra \subseteq Present(db) /\ Present(db) \subseteq Asked(asns) \cup extra}

\* The failures of a call that posts the requests `sent` when nothing fails.
FailsOf(sent, db, extra) ==
    {NoFail}
    \cup {HttpFail(i) : i \in 1 .. Len(sent)}
    \cup UNION {IF sent[i].kind = "asns"
                THEN {KeyFail(i, D) :
                         D \in SUBSET {n.asn : n \in Response(db, sent[i].asns, extra)}}
                ELSE {KeyFail(i, {})} : i \in 1 .. Len(sent)}

QueryFails(asns, n, db, extra) ==
    FailsOf(QueryAsrankForAsns(Start, asns, n, data_ts, db, extra, NoFail).sent, db, extra)

\* Re-initialisation against a remote whose datasets are all of Dates, or all but one.
DoInitCache ==
    /\ Ready
    /\ \E ts \in {t \in Targets : ~t.isint}, datasets \in {Dates, Dates \ {DateStart}},
       fail \in Fails(2) :
        InitCache(ts, datasets, fail)

DoCacheAsrankChunk ==
    /\ Ready
    /\ \E asns \in AsnLists, n \in ChunkSizes :
        \E extra \in ExtrasFor(asns, SUBSET ASNS) :
            \E db \in DBsFor(asns, extra, PlainDBs) :
                \E fail \in QueryFails(asns, n, db, extra) :
                    CacheAsrankChunk(asns, n, db, extra, fail)

DoGetAsrankForAsns ==
    /\ Ready
    /\ \E asns \in AsnLists :
        \E extra \in ExtrasFor(asns, SUBSET ASNS) :
            \E db \in DBsFor(asns, extra, PlainDBs) :
                \E fail \in QueryFails(asns, DefaultChunkSize, db, extra) :
                    GetAsrankForAsns(asns, db, extra, fail)

\* The batch query engine.
Next ==
    \/ Resume
    \/ DoInitCache
    \/ DoCacheAsrankChunk
    \/ DoGetAsrankForAsns

Spec == Init /\ [][Next]_vars

\* The dataset resolver, against every remote and target.
Resolve ==
    /\ Ready
    /\ \E ts \in Targets, datasets \in DatasetSets, fail \in Fails(2) :
        InitCache(ts, datasets, fail)

NextResolve ==
    \/ Resume
    \/ Resolve

SpecResolve == Init /\ [][NextResolve]_vars

\* A session re-pinned against a remote that holds a dataset for every date.
Repin ==
    /\ Ready
    /\ \E ts \in {t \in Targets : ~t.isint}, fail \in Fails(1) :
        InitCache(ts, Dates, fail)

\* Degrees: the remote reports every degree record of RawDegrees for AS 701, the customer.
Customer == "701"
DegreeDBs == {db \in DBs(RawDegrees, {NULL}) : Present(db) \subseteq {Customer}}

FetchDegree ==
    /\ Ready
    /\ \E db \in DBsFor(<<Customer>>, {}, DegreeDBs) :
        \E fail \in QueryFails(<<Customer>>, DefaultChunkSize, db, {}) :
            GetDegree(Customer, db, {}, fail)

AskSoleProvider ==
    /\ Ready
    /\ \E asn_pro \in ASNS, link \in Links :
        \E db \in DBsFor(<<Customer>>, {}, DegreeDBs) :
            \E fail \in FailsOf(SoleProvider(Start, asn_pro, Customer, data_ts, db, {},
                                              link, NoFail).st.sent, db, {}) :
                IsSoleProvider(asn_pro, Customer, db, {}, link, fail)

NextDegree ==
    \/ Resume
    \/ Repin
    \/ FetchDegree
    \/ AskSoleProvider

SpecDegree == Init /\ [][NextDegree]_vars

\* Relationships between every pair.
AskRelationship ==
    /\ Ready
    /\ \E asn0 \in ASNS, asn1 \in ASNS, link \in Links, fail \in Fails(1) :
        GetRelationship(asn0, asn1, link, fail)

NextRel ==
    \/ Resume
    \/ Repin
    \/ AskRelationship

SpecRel == Init /\ [][NextRel]_vars

\* The cone cache, for every member, root and cone.
AskCone ==
    /\ Ready
    /\ \E asn0 \in ASNS, asn1 \in ASNS, cone \in Cones, fail \in Fails(1) :
        InCustomerCone(asn0, asn1, cone, fail)

NextCone ==
    \/ Resume
    \/ Repin
    \/ AskCone

SpecCone == Init /\ [][NextCone]_vars

\* The whole session: every operation, against a remote that holds a dataset for every
\* date and answers from these sets.
SessionDBs == DBs(PlainDegrees, {NULL, "orgA"})
SessionOrgs == {None, Organization(2, ASNS)}
SessionNeighbors ==
    {None, AsnLinks(<<NeighborLink("702", "provider"), NeighborLink("701", "peer")>>),
     AsnLinks(<<NeighborLink("702", "sibling")>>)}
SessionCones == {None, Cone({"701"})}
SessionTargets == {t \in Targets : ~t.isint /\ t.v \in {DateStart, DateStart + 1}}

InitSession == Init /\ last.args = [date |-> DateStart, datasets |-> Dates]

RepinSession ==
    /\ Ready
    /\ \E ts \in SessionTargets, fail \in {NoFail, HttpFail(1)} :
        InitCache(ts, Dates, fail)

Preload ==
    /\ Ready
    /\ \E asns \in AsnLists :
        \E db \in DBsFor(asns, {}, SessionDBs) :
            CacheAsrankChunk(asns, DefaultChunkSize, db, {}, NoFail)

AskSiblings ==
    /\ Ready
    /\ \E asn \in ASNS, skip \in BOOLEAN, org \in SessionOrgs :
        \E db \in DBsFor(<<asn>>, {}, SessionDBs) :
            \E fail \in FailsOf(AllSiblings(Start, asn, skip, data_ts, db, {},
                                             [o \in OrgIds |-> org], NoFail).st.sent, db, {}) :
                GetAllSiblings(asn, skip, db, {}, [o \in OrgIds |-> org], fail)

AskSiblingsList ==
    /\ Ready
    /\ \E asns \in AsnLists, org \in SessionOrgs :
        \E db \in DBsFor(asns, {}, SessionDBs) :
            GetAllSiblingsList(asns, DefaultChunkSize, db, {}, [o \in OrgIds |-> org], NoFail)

AskNeighbors ==
    /\ Ready
    /\ \E asn \in ASNS, data \in SessionNeighbors, fail \in Fails(1) :
        GetNeighborAses(asn, data, fail)

AskRootCone ==
    /\ Ready
    /\ \E cone \in SessionCones :
        InCustomerCone("701", "701", cone, NoFail)

AskLink ==
    /\ Ready
    /\ GetRelationship("701", "702", "customer", NoFail)

NextSession ==
    \/ Resume
    \/ RepinSession
    \/ Preload
    \/ AskSiblings
    \/ AskSiblingsList
    \/ AskNeighbors
    \/ AskRootCone
    \/ AskLink

SpecSession == InitSession /\ [][NextSession]_vars

\* Organizations: the remote reports each AS without organization or under either orgId.
OrgDBs == DBs(PlainDegrees, Orgs)

AskAreSiblings ==
    /\ Ready
    /\ \E asn1 \in ASNS, asn2 \in ASNS :
        \E db \in DBsFor(<<asn1, asn2>>, {}, OrgDBs) :
            \E fail \in QueryFails(<<asn1, asn2>>, DefaultChunkSize, db, {}) :
                AreSiblings(asn1, asn2, db, {}, fail)

\* organization(orgId) answers null, the two members in full, or one unpaginated page
\* of an organization of three members.
OrgPages ==
    {org \in Organizations :
        \/ org = None
        \/ org = Organization(Cardinality(ASNS), ASNS)
        \/ org.totalCount = Cardinality(ASNS) + 1 /\ org.asns # {}}

AskOrgSiblings ==
    /\ Ready
    /\ \E asn \in ASNS, skip \in BOOLEAN, org \in OrgPages :
        \E db \in DBsFor(<<asn>>, {}, OrgDBs) :
            \E fail \in FailsOf(AllSiblings(Start, asn, skip, data_ts, db, {},
                                             [o \in OrgIds |-> org], NoFail).st.sent, db, {}) :
                GetAllSiblings(asn, skip, db, {}, [o \in OrgIds |-> org], fail)

AskOrgSiblingsList ==
    /\ Ready
    /\ \E asns \in AsnLists, chunk_size \in ChunkSizes \cup {DefaultChunkSize},
          org \in SessionOrgs :
        \E db \in DBsFor(asns, {}, OrgDBs) :
            GetAllSiblingsList(asns, chunk_size, db, {}, [o \in OrgIds |-> org], NoFail)

NextOrg ==
    \/ Resume
    \/ Repin
    \/ AskAreSiblings
    \/ AskOrgSiblings
    \/ AskOrgSiblingsList

SpecOrg == Init /\ [][NextOrg]_vars

----------------------------------------------------------------------------
(* Properties *)

IsNode(v) == v.kind = "node"
Requested(call) == UNION {Elems(call.sent[i].asns) : i \in 1 .. Len(call.sent)}
IsEnsureCached(call) == call.op \in {"cache_asrank_chunk", "get_asrank_for_asns"}

\* C1: once an AS identifier is a key of the Entity Cache, no later entity-batch query
\* of the session includes it: every batch query carries only identifiers that were no
\* key of the cache when it was posted.
C1_NeverRequeried ==
    IsEnsureCached(last) =>
        \A i \in 1 .. Len(last.sent) : last.sent[i].cached = {}

\* C2: after ensure_cached(asn_list, chunk_size) returns normally every identifier of
\* asn_list is a key of the Entity Cache; one the call asked the remote for maps to the
\* descriptor the remote returned (its sub-fields as reported, wherever reported), and to
\* None when the remote returned none.
C2_EnsureCachedStoresAll ==
    (IsEnsureCached(last) /\ last.raised = NULL) =>
        \A a \in Elems(last.args.asns) :
            /\ cache[a] # Absent
            /\ a \in Requested(last) =>
                  IF \E n \in last.remote : n.asn = a
                  THEN \E n \in last.remote :
                          /\ n.asn = a
                          /\ IsNode(cache[a])
                          /\ cache[a].asn = a
                          /\ cache[a].organization = n.organization
                          /\ \A f \in DegreeFields :
                                n.asnDegree[f] # NullInt => cache[a].asnDegree[f] = n.asnDegree[f]
                  ELSE cache[a] = None

\* C2 witness: a batch of two identifiers, one known to the remote and one not, answered
\* by one query, leaves one descriptor and one None.
C2_Witness ==
    /\ last.op = "cache_asrank_chunk"
    /\ last.raised = NULL
    /\ last.args.asns = <<"701", "702">>
    /\ Len(last.sent) = 1
    /\ IsNode(cache["701"])
    /\ cache["702"] = None

DatesBefore(datasets, date) == {d \in datasets : d <= date}
DatesAfter(datasets, date) == {d \in datasets : d >= date}

\* C3: init_cache(target) pins the most recent dataset date at or before target when one
\* exists, else the earliest at or after target, and raises ValueError only when the
\* remote has no dataset on either side of target.
C3_ResolvesNearestDataset ==
    (last.op = "init_cache" /\ last.raised \notin {"http", "keyerror"}) =>
        LET before == DatesBefore(last.args.datasets, last.args.date)
            after == DatesAfter(last.args.datasets, last.args.date)
        IN  /\ before # {} => (last.raised = NULL /\ data_ts = Max(before))
            /\ (before = {} /\ after # {}) => (last.raised = NULL /\ data_ts = Min(after))
            /\ last.raised = "ValueError" => (before = {} /\ after = {})

\* C4: every entry of every cache was fetched under the dataset that is pinned now, and
\* init_cache leaves all five caches empty, also when it raises.
C4_CachesPinnedToDataset ==
    /\ \A n \in CacheNames : pinned_at[n] \subseteq {data_ts}
    /\ last.op = "init_cache" =>
          /\ Keys(cache) = {}
          /\ Keys(cone_cache) = {}
          /\ Keys(neighbors_cache) = {}
          /\ Keys(siblings_cache) = {}
          /\ Keys(organization_cache) = {}

\* C4 witness: a session holding cached entries was re-pinned to another dataset.
C4_Witness ==
    /\ last.op = "init_cache"
    /\ last.raised = NULL
    /\ Cardinality(last.remote.dropped) >= 2
    /\ last.remote.old_ts # data_ts

\* C5: every value of the Neighbor Cache is a record of the three lists providers,
\* customers and peers, and get_neighbor_ases returns such a record.
C5_NeighborRecords ==
    /\ \A a \in Keys(neighbors_cache) : neighbors_cache[a].kind = "dict"
    /\ (last.op = "get_neighbor_ases" /\ last.raised = NULL) => last.ret.kind = "dict"

\* C6: once an in_customer_cone call for a root has returned, a later in_customer_cone
\* call of the session with that root posts no request.
C6_ConeAskedOnce ==
    (last.op = "in_customer_cone" /\ last.remote.asked_before) => Len(last.sent) = 0

\* C7: every descriptor stored in the Entity Cache has a degree record whose six
\* sub-fields are non-negative integers, and get_degree returns such a record.
C7_DegreesNormalized ==
    /\ \A a \in Keys(cache) :
          IsNode(cache[a]) => \A f \in DegreeFields : cache[a].asnDegree[f] >= 0
    /\ (last.op = "get_degree" /\ last.raised = NULL /\ last.ret # None) =>
          \A f \in DegreeFields : last.ret[f] >= 0

\* C8: get_relationship maps the remote label provider to "c-p", customer to "p-c",
\* peer to "p-p", and no link record or any other label to null.
C8_RelationshipMapping ==
    (last.op = "get_relationship" /\ last.raised = NULL) =>
        /\ last.remote = "provider" => last.ret = "c-p"
        /\ last.remote = "customer" => last.ret = "p-c"
        /\ last.remote = "peer" => last.ret = "p-p"
        /\ last.remote \notin {"provider", "customer", "peer"} => last.ret = NULL
        /\ last.ret \in {"c-p", "p-c", "p-p", NULL}

\* C8 witness: the remote said provider and the call returned "c-p".
C8_Witness ==
    /\ last.op = "get_relationship"
    /\ last.raised = NULL
    /\ last.remote = "provider"
    /\ last.ret = "c-p"

Complementary(x, y) ==
    /\ x = "p-c" <=> y = "c-p"
    /\ x = "c-p" <=> y = "p-c"
    /\ x = "p-p" <=> y = "p-p"
    /\ x = NULL <=> y = NULL

Recognised == {"provider", "customer", "peer"}
Mirrored(l1, l2) ==
    \/ l1 = "provider" /\ l2 = "customer"
    \/ l1 = "customer" /\ l2 = "provider"
    \/ l1 = "peer" /\ l2 = "peer"
    \/ l1 \notin Recognised /\ l2 \notin Recognised

\* The last two completed get_relationship calls of the session asked for (a, b) and (b, a).
BothDirectionsAsked ==
    /\ last.op = "get_relationship"
    /\ last.raised = NULL
    /\ rel_log.args = <<last.args[2], last.args[1]>>

\* C9 as claimed: get_relationship(a, b) and get_relationship(b, a) are always
\* complementary (checked for two distinct identifiers a and b).
C9_AlwaysComplementary ==
    (BothDirectionsAsked /\ last.args[1] # last.args[2]) =>
        Complementary(rel_log.ret, last.ret)

\* C9 as amended: get_relationship(a, b) and get_relationship(b, a) are complementary
\* whenever the remote reported mirrored labels for the two directions.
C9_ComplementaryWhenMirrored ==
    (BothDirectionsAsked /\ Mirrored(rel_log.link, last.remote)) =>
        Complementary(rel_log.ret, last.ret)

\* C9 witness: (a, b) answered provider and then (b, a) answered customer, for a # b.
C9_Witness ==
    /\ BothDirectionsAsked
    /\ last.args[1] # last.args[2]
    /\ rel_log.link = "provider"
    /\ last.remote = "customer"
    /\ rel_log.ret = "c-p"
    /\ last.ret = "p-c"

\* C10: is_sole_provider(p, c) returns true exactly when c's cached degree has
\* provider = 1 and peer = 0 and get_relationship(p, c) returned "p-c"; it returns false
\* whenever c is cached as None or its provider count is not 1.
C10_SoleProvider ==
    (last.op = "is_sole_provider" /\ last.raised = NULL) =>
        LET c == cache[last.args[2]]
        IN  /\ last.ret = TRUE <=>
                  /\ IsNode(c)
                  /\ c.asnDegree.provider = 1
                  /\ c.asnDegree.peer = 0
                  /\ last.remote.asked
                  /\ last.remote.rel = "p-c"
            /\ (c = None \/ (IsNode(c) /\ c.asnDegree.provider # 1)) => last.ret = FALSE

\* C10 witness: a customer with one provider and no peer, whose link to p is p-c.
C10_Witness ==
    /\ last.op = "is_sole_provider"
    /\ last.raised = NULL
    /\ last.ret = TRUE
    /\ cache[last.args[2]].asnDegree.provider = 1
    /\ cache[last.args[2]].asnDegree.peer = 0
    /\ last.remote.rel = "p-c"

\* C11: are_siblings(asn1, asn2) returns false when either AS is cached as None, and
\* otherwise true exactly when both descriptors carry an organization and the two orgIds
\* are equal; so are_siblings(asn, asn) is true for an asn with a known organization.
C11_AreSiblings ==
    (last.op = "are_siblings" /\ last.raised = NULL) =>
        LET d1 == cache[last.args[1]]
            d2 == cache[last.args[2]]
        IN  /\ (d1 = None \/ d2 = None) => last.ret = FALSE
            /\ (IsNode(d1) /\ IsNode(d2)) =>
                   (last.ret = TRUE <=>
                       /\ d1.organization \in OrgIds
                       /\ d2.organization \in OrgIds
                       /\ d1.organization = d2.organization)
            /\ (last.args[1] = last.args[2] /\ IsNode(d1) /\ d1.organization \in OrgIds) =>
                   last.ret = TRUE

\* C11 witness: two distinct known ASes of one organization are siblings.
C11_Witness ==
    /\ last.op = "are_siblings"
    /\ last.raised = NULL
    /\ last.args[1] # last.args[2]
    /\ IsNode(cache[last.args[1]])
    /\ IsNode(cache[last.args[2]])
    /\ cache[last.args[1]].organization = "orgA"
    /\ cache[last.args[2]].organization = "orgA"
    /\ last.ret = TRUE

\* C12: get_all_siblings(asn) returns (0, []) when the AS or its organization is unknown;
\* otherwise the returned list does not contain asn and the returned count is the
\* organization's member totalCount minus one.
C12_SiblingsExcludeSelf ==
    (last.op = "get_all_siblings" /\ last.raised = NULL) =>
        LET asn == last.args[1]
            d == cache[asn]
            known == IsNode(d) /\ d.organization \in OrgIds
            data == IF known THEN organization_cache[d.organization] ELSE None
        IN  IF ~known \/ data = None \/ data = Absent
            THEN last.ret = SiblingsTuple(0, {})
            ELSE /\ asn \notin last.ret.siblings
                 /\ last.ret.total = data.totalCount - 1

\* The entity-batch queries among the requests of a call
EntityQueries(sent) == {i \in 1 .. Len(sent) : sent[i].kind = "asns"}

\* C13: get_all_siblings_list(asns) returns one entry per input identifier, each equal to
\* what get_all_siblings returns for that identifier from the same session state; its
\* entity-batch queries all come before the first organization query; and it sends no
\* more entity-batch queries than get_all_siblings called for each identifier in turn.
C13_SiblingsListAsLoop ==
    [][(last'.op = "get_all_siblings_list" /\ last'.raised = NULL) =>
          LET asns == last'.args.asns
              db == last'.remote.db
              orgdb == last'.remote.orgdb
              loop == SiblingsLoop(asns, 1, [st |-> Start, res |-> <<>>],
                                   data_ts, db, {}, orgdb, NoFail)
          IN  /\ DOMAIN last'.ret = Elems(asns)
              /\ \A a \in Elems(asns) :
                     last'.ret[a] = AllSiblings(Start, a, FALSE, data_ts, db, {}, orgdb, NoFail).ret
              /\ \A i \in EntityQueries(last'.sent) :
                     \A j \in 1 .. Len(last'.sent) : j < i => j \in EntityQueries(last'.sent)
              /\ Cardinality(EntityQueries(last'.sent))
                     <= Cardinality(EntityQueries(loop.st.sent))]_vars

\* C14: a cache_asrank_chunk / get_asrank_for_asns call for a list whose identifiers were
\* all in the list of such a call that has already returned normally posts no request,
\* leaves queries_sent unchanged and leaves the Entity Cache unchanged.
C14_EnsureCachedIdempotent ==
    [][(IsEnsureCached(last') /\ Elems(last'.args.asns) \subseteq ensured) =>
          /\ last'.raised = NULL
          /\ last'.sent = <<>>
          /\ queries_sent' = queries_sent
          /\ cache' = cache]_vars

\* C14 witness: a second call for a non-empty list, every identifier of it cached.
C14_Witness ==
    /\ IsEnsureCached(last)
    /\ Elems(last.args.asns) \subseteq ensured
    /\ last.args.asns # <<>>
    /\ last.raised = NULL
    /\ last.sent = <<>>
    /\ \A a \in Elems(last.args.asns) : cache[a] # Absent

\* C15: queries_sent grows by exactly one for every request a call hands to
\* _send_request, whatever becomes of the request, and changes in no other way
\* (init_cache starts the count again from the requests it posts itself).
C15_CountsEveryRequest ==
    [][IF last'.op = "idle" THEN queries_sent' = queries_sent
       ELSE IF last'.op = "init_cache" THEN queries_sent' = Len(last'.sent)
       ELSE queries_sent' = queries_sent + Len(last'.sent)]_vars

\* How many identifiers the requests `sent` carry together
RECURSIVE Carried(_)
Carried(sent) == IF sent = <<>> THEN 0 ELSE Len(Head(sent).asns) + Carried(Tail(sent))

Ceil(k, n) == (k + n - 1) \div n

\* C16: with k the number of entries of asn_list whose identifier is no key of the cache
\* when cache_asrank_chunk / get_asrank_for_asns is called, a call that returns normally
\* posts exactly ceil(k / chunk_size) entity-batch queries (none when k = 0) and a call
\* that raises posts no more; every query carries at most chunk_size identifiers and
\* only identifiers that were not cached, each query is for the pinned data_ts, and the
\* queries of a normally returning call carry k entries, which are the uncached identifiers.
C16_ChunkedQueries ==
    [][IsEnsureCached(last') =>
          LET asns == last'.args.asns
              n == last'.args.chunk_size
              sent == last'.sent
              uncached == {i \in 1 .. Len(asns) : cache[asns[i]] = Absent}
              k == Cardinality(uncached)
          IN  /\ Len(sent) <= Ceil(k, n)
              /\ last'.raised = NULL => Len(sent) = Ceil(k, n)
              /\ \A i \in 1 .. Len(sent) :
                     /\ sent[i].kind = "asns"
                     /\ Len(sent[i].asns) \in 1 .. n
                     /\ Elems(sent[i].asns) \subseteq {asns[j] : j \in uncached}
                     /\ sent[i].date = data_ts
              /\ last'.raised = NULL =>
                     /\ Carried(sent) = k
                     /\ Requested(last') = {asns[j] : j \in uncached}]_vars

\* C16 witness: two uncached identifiers fetched with chunk_size 1 by two queries.
C16_Witness ==
    /\ IsEnsureCached(last)
    /\ last.raised = NULL
    /\ last.args.chunk_size = 1
    /\ Len(last.sent) = 2
    /\ last.sent[1].asns # last.sent[2].asns
    /\ last.sent[1].cached = {}
    /\ last.sent[2].cached = {}

\* C17: once a get_neighbor_ases(asn) call of the session has returned, every later
\* get_neighbor_ases(asn) call posts no request and returns the value the first returned.
C17_NeighborsAskedOnce ==
    (last.op = "get_neighbor_ases" /\ neighbors_log[last.args[1]] # Absent) =>
        /\ last.sent = <<>>
        /\ last.raised = NULL
        /\ last.ret = neighbors_log[last.args[1]]

\* C18: the session is Resolved in every state (data_ts is a dataset date); every
\* entity-batch, pairwise-link and cone query is posted for the data_ts pinned at the
\* time; data_ts changes only in an init_cache call, and an init_cache call leaves all
\* five caches empty.
C18_ResolvedSession ==
    [][/\ data_ts \in Dates
       /\ data_ts' \in Dates
       /\ \A i \in 1 .. Len(last'.sent) :
              last'.sent[i].kind \in {"asns", "asnLink", "asnCone"} =>
                  /\ last'.op # "init_cache"
                  /\ last'.sent[i].date = data_ts
       /\ data_ts' # data_ts => last'.op = "init_cache" /\ last'.raised = NULL
       /\ last'.op = "init_cache" =>
              \A a \in ASNS, o \in OrgIds :
                  /\ cache'[a] = Absent
                  /\ cone_cache'[a] = Absent
                  /\ neighbors_cache'[a] = Absent
                  /\ siblings_cache'[a] = Absent
                  /\ organization_cache'[o] = Absent]_vars

\* C18 witness: a re-initialisation that moved data_ts and emptied a filled Entity Cache.
C18_Witness ==
    /\ last.op = "init_cache"
    /\ last.raised = NULL
    /\ "cache" \in last.remote.dropped
    /\ last.remote.old_ts \in Dates \ {data_ts}
    /\ Keys(cache) = {}

\* C19: between two init_cache calls no step changes or removes an Entity Cache entry
\* that is already a key, whatever nodes a later response carries.
C19_WriteOnce ==
    [][last'.op # "init_cache" =>
          \A a \in ASNS : cache[a] # Absent => cache'[a] = cache[a]]_vars

\* C19 witness: a response carried a node for an identifier that was not asked for in the
\* call and whose entry differs from the node: the entry is older and was kept.
C19_Witness ==
    /\ IsEnsureCached(last)
    /\ last.raised = NULL
    /\ \E n \in last.remote :
          /\ n.asn \notin Requested(last)
          /\ cache[n.asn] # Absent
          /\ cache[n.asn] # [n EXCEPT !.asnDegree = NormalizeDegree(n.asnDegree)]

\* C20: when the response for a chunk cannot be walked, cache_asrank_chunk /
\* get_asrank_for_asns raises, no identifier of that chunk that was no key when the
\* chunk was posted is stored as None (it holds a node read before the failure or stays
\* no key, so a later call asks for it again), every identifier of the earlier chunks
\* of the call is a key, and no entry that existed before the call is changed.
C20_FailedChunkNotCached ==
    [][(IsEnsureCached(last') /\ last'.raised = "keyerror") =>
          LET sent == last'.sent
              failed == sent[Len(sent)].asns
          IN  /\ sent # <<>>
              /\ \A a \in Elems(failed) \ sent[Len(sent)].cached :
                     \/ cache'[a] = Absent
                     \/ IsNode(cache'[a]) /\ cache'[a].asn = a
              /\ \A i \in 1 .. Len(sent) - 1 :
                     \A a \in Elems(sent[i].asns) : cache'[a] # Absent
              /\ \A a \in ASNS : cache[a] # Absent => cache'[a] = cache[a]]_vars

\* C20 witness: the second chunk of a call failed; the identifier of the first chunk is
\* cached and the identifier of the second is no key.
C20_Witness ==
    /\ IsEnsureCached(last)
    /\ last.raised = "keyerror"
    /\ Len(last.sent) = 2
    /\ \A a \in Elems(last.sent[1].asns) : cache[a] # Absent
    /\ \E a \in Elems(last.sent[2].asns) : cache[a] = Absent

====
